---------------------------- MODULE Spec2Model ----------------------------
(***************************************************************************)
(* Model of the two MRI-safety batch scripts of drireneleemd/mri_safety:   *)
(*   variant 1  src/app.py       Epic FHIR lookups + Gemini analysis       *)
(*   variant 2  src/mri_tool.py  one POST per MRN to a triage endpoint     *)
(*                                                                         *)
(* A run is one click on "Analyze Patients".  The remote services are the  *)
(* environment: every response is chosen nondeterministically.             *)
(*                                                                         *)
(* Text is a sequence of one-character strings, so that strip, split,      *)
(* replace, slicing and the regular-expression searches are computed as    *)
(* the Python code computes them.  A Python dict read from JSON is a       *)
(* function whose DOMAIN is the set of keys present; a dict the code       *)
(* builds (a report row) is a sequence of <<key, value>> pairs, because    *)
(* pandas takes the column order from the insertion order of the keys.     *)
(***************************************************************************)
EXTENDS Integers, Sequences, FiniteSets, TLC

VARIABLES
    variant,      \* 1: app.py, 2: mri_tool.py
    pc,           \* position of the run: "idle", "loop", "devices", ..., "done", "crashed"
    mrn_input,    \* the text area's content
    mrn_list,     \* the identifiers split out of mrn_input
    i,            \* 1-based position of the loop in mrn_list
    results,      \* the accumulated report rows
    report,       \* the serialized report, NoReport until it is written
    requests,     \* every HTTP request issued, in order
    env,          \* per processed identifier: what the remote side answered
    key_exists,   \* variant 1: private_key.pem is present
    token,        \* variant 1: the value get_epic_token returned
    issued,       \* variant 1: what the token endpoint answered, NotAsked before
    ai_calls,     \* variant 1: number of generate_content calls
    cur,          \* variant 1: get_patient_data's locals for the latest identifier
    errors,       \* variant 1: positions reported with st.error("Patient ... not found.")
    pool          \* the texts the clinical API may put into a resource

vars == << variant, pc, mrn_input, mrn_list, i, results, report, requests, env,
           key_exists, token, issued, ai_calls, cur, errors, pool >>

-----------------------------------------------------------------------------
(* Bounds of the model *)

\* longest text typed into the text area
MaxInputLen == 4

-----------------------------------------------------------------------------
(* Python values *)

\* Python's None, comparable with texts: its one element is not a character
None == << "<None>" >>
\* the missing cell of a pandas DataFrame
NaN == << "<NaN>" >>
\* the empty dict {}
EmptyDict == [k \in {} |-> 0]

\* d.get(k, default)
Get(d, k, default) == IF k \in DOMAIN d THEN d[k] ELSE default

\* Python truthiness of a text or None (x or y, if x)
Truthy(x) == x # None /\ x # << >>

Min(a, b) == IF a <= b THEN a ELSE b

\* n copies of the character c
Rep(c, n) == [k \in 1..n |-> c]

\* the characters str.strip() and the regular expression's \s remove
IsSpace(c) == c \in {" ", "\n", "\t", "\r", "\f"}

RECURSIVE LStrip(_)
LStrip(s) == IF s # << >> /\ IsSpace(Head(s)) THEN LStrip(Tail(s)) ELSE s

RECURSIVE RStrip(_)
RStrip(s) ==
    IF s # << >> /\ IsSpace(s[Len(s)]) THEN RStrip(SubSeq(s, 1, Len(s) - 1)) ELSE s

\* s.strip()
Strip(s) == RStrip(LStrip(s))

\* s[:n]
Take(s, n) == SubSeq(s, 1, Min(n, Len(s)))

\* s[n:] (n characters dropped)
Drop(s, n) == SubSeq(s, n + 1, Len(s))

\* s.startswith(p)
StartsWith(s, p) == Len(p) <= Len(s) /\ SubSeq(s, 1, Len(p)) = p

\* s.find(p) + 1: the 1-based position of the first occurrence of p, 0 if none
RECURSIVE FindFrom(_, _, _)
FindFrom(s, p, k) ==
    IF k + Len(p) - 1 > Len(s) THEN 0
    ELSE IF SubSeq(s, k, k + Len(p) - 1) = p THEN k
    ELSE FindFrom(s, p, k + 1)

Find(s, p) == FindFrom(s, p, 1)

\* p in s
Contains(s, p) == Find(s, p) # 0

\* s.replace(old, new), old not empty
RECURSIVE Replace(_, _, _)
Replace(s, old, new) ==
    IF s = << >> THEN << >>
    ELSE IF StartsWith(s, old) THEN new \o Replace(Drop(s, Len(old)), old, new)
    ELSE << Head(s) >> \o Replace(Tail(s), old, new)

\* s.replace(c, d) for single characters c and d
Replace1(s, c, d) == [k \in 1..Len(s) |-> IF s[k] = c THEN d ELSE s[k]]

\* s.split(sep) for a one-character separator
RECURSIVE Split(_, _)
Split(s, sep) ==
    LET k == Find(s, << sep >>)
    IN  IF k = 0 THEN << s >>
        ELSE << SubSeq(s, 1, k - 1) >> \o Split(Drop(s, k), sep)

\* sep.join(list)
RECURSIVE Join(_, _)
Join(sep, list) ==
    IF list = << >> THEN << >>
    ELSE IF Len(list) = 1 THEN list[1]
    ELSE list[1] \o sep \o Join(sep, Tail(list))

LowerCase == << "a", "b", "c", "d", "e", "f", "g", "h", "i", "j", "k", "l", "m",
                "n", "o", "p", "q", "r", "s", "t", "u", "v", "w", "x", "y", "z" >>
UpperCase == << "A", "B", "C", "D", "E", "F", "G", "H", "I", "J", "K", "L", "M",
                "N", "O", "P", "Q", "R", "S", "T", "U", "V", "W", "X", "Y", "Z" >>

MapChar(c, from, to) ==
    IF \E k \in 1..Len(from) : from[k] = c
    THEN to[CHOOSE k \in 1..Len(from) : from[k] = c]
    ELSE c

\* s.upper() and s.lower()
Upper(s) == [k \in 1..Len(s) |-> MapChar(s[k], LowerCase, UpperCase)]
Lower(s) == [k \in 1..Len(s) |-> MapChar(s[k], UpperCase, LowerCase)]

\* the value of column key in an ordered row, NaN when the row lacks the key
RECURSIVE Cell(_, _)
Cell(row, key) ==
    IF row = << >> THEN NaN
    ELSE IF Head(row)[1] = key THEN Head(row)[2]
    ELSE Cell(Tail(row), key)

\* the keys of an ordered row, in insertion order
Keys(row) == [k \in 1..Len(row) |-> row[k][1]]

-----------------------------------------------------------------------------
(* Literals of the program *)

S_Unknown == <<"U", "n", "k", "n", "o", "w", "n">>
S_APIError == <<"A", "P", "I", " ", "E", "r", "r", "o", "r">>
S_UnknownDevice == <<"U", "n", "k", "n", "o", "w", "n", " ", "D", "e", "v", "i", "c", "e">>
S_UnknownCondition == <<"U", "n", "k", "n", "o", "w", "n", " ", "C", "o", "n", "d", "i", "t", "i", "o", "n">>
S_UnknownProcedure == <<"U", "n", "k", "n", "o", "w", "n", " ", "P", "r", "o", "c", "e", "d", "u", "r", "e">>
S_Study == <<"S", "t", "u", "d", "y">>
S_NA == <<"N", "/", "A">>
S_Dots == <<".", ".", ".">>
S_Model == <<" ", "(", "M", "o", "d", "e", "l", ":", " ">>
S_Dash == <<")", " ", "-", " ">>
S_Risk == <<" ", "r", "i", "s", "k">>
S_Bar == <<" ", "|", " ">>
S_AIError == <<"A", "I", " ", "E", "r", "r", "o", "r", ":", " ">>
S_radiology == <<"r", "a", "d", "i", "o", "l", "o", "g", "y">>
S_imaging == <<"i", "m", "a", "g", "i", "n", "g">>
S_active == <<"a", "c", "t", "i", "v", "e">>
S_None == <<"N", "o", "n", "e">>
STATUS_MARKER == <<"*", "*", "M", "R", "I", " ", "S", "a", "f", "e", "t", "y", " ", "S", "t", "a", "t", "u", "s", ":", "*", "*">>
RISK_MARKER == <<"*", "*", "R", "i", "s", "k", " ", "L", "e", "v", "e", "l", ":", "*", "*">>

\* the emoji the triage endpoint prefixes to the patient fields, one code point each
E_HOSPITAL == "<U+1F3E5>"
E_PERSON == "<U+1F464>"
E_CALENDAR == "<U+1F4C5>"
E_GENDER == "<U+26A7>"
BULLET == "<U+2022>"

\* the report not yet written
NoReport == [columns |-> << "<none>" >>, rows |-> << >>, widths |-> << >>]

-----------------------------------------------------------------------------
(* The shared front end: the text area and the identifier list *)

\* what the user can type: identifiers, blanks and separators
InputChars == {"1", " ", ","}

RECURSIVE TextsUpTo(_, _)
TextsUpTo(chars, n) ==
    IF n = 0 THEN { << >> }
    ELSE LET shorter == TextsUpTo(chars, n - 1)
         IN  shorter \cup { Append(s, c) : s \in { t \in shorter : Len(t) = n - 1 }, c \in chars }

Inputs == TextsUpTo(InputChars, MaxInputLen)

\* [x.strip() for x in parts if x.strip()]
RECURSIVE StripNonBlank(_)
StripNonBlank(parts) ==
    IF parts = << >> THEN << >>
    ELSE (IF Truthy(Strip(Head(parts))) THEN << Strip(Head(parts)) >> ELSE << >>)
         \o StripNonBlank(Tail(parts))

\* mrn_list = [x.strip() for x in mrn_input.split(",") if x.strip()]
MrnList(input) == StripNonBlank(Split(input, ","))

\* the row put in front of the list
PrependRow(rows, row) == << row >> \o rows

\* results.append(row)
AppendRow(rows, row) == Append(rows, row)

\* one entry of the request log
Request(idx, cat, tok, arg) == [idx |-> idx, cat |-> cat, token |-> tok, arg |-> arg]

\* a function's outcome: the value it returns, or an exception that leaves it
Return(v) == [raised |-> FALSE, value |-> v]
Raise(msg) == [raised |-> TRUE, value |-> msg]

-----------------------------------------------------------------------------
(* Variant 2, src/mri_tool.py: what the triage endpoint can answer *)

T_Ann == <<"A", "n", "n">>
T_Dob == <<"1", "9", "7", "0", "-", "0", "1", "-", "0", "1">>
T_Female == <<"F">>
T_Conditional == <<"C", "o", "n", "d", "i", "t", "i", "o", "n", "a", "l">>
T_Mod == <<"M", "o", "d">>
T_Summary == <<"p", "a", "c", "e", "m", "a", "k", "e", "r">>
T_Concern1 == <<"l", "e", "a", "d">>
T_Concern2 == <<"h", "e", "a", "t">>
T_Rec1 == <<"c", "o", "n", "s", "u", "l", "t">>
T_Stamp == <<"2", "0", "2", "5", "-", "0", "1", "-", "0", "1", "T", "0", "0", ":", "0", "0">>
T_Pacer == <<"P", "a", "c", "e", "r">>
T_ModelNo == <<"X", "1">>
T_high == <<"h", "i", "g", "h">>
T_NotFound == <<"p", "a", "t", "i", "e", "n", "t", " ", "n", "o", "t", " ", "f", "o", "u", "n", "d">>
T_Http500 == <<"5", "0", "0", " ", "S", "e", "r", "v", "e", "r", " ", "E", "r", "r", "o", "r">>
T_Timeout == <<"t", "i", "m", "e", "o", "u", "t">>
T_BadJson == <<"E", "x", "p", "e", "c", "t", "i", "n", "g", " ", "v", "a", "l", "u", "e">>

\* analysis_details.individual_findings of a full answer: a device with a name
\* and a model, a concern that only has a description (longer than the 50
\* characters kept), a finding of no concern, and a concern with no data at all
Findings ==
    << [has_concern |-> TRUE, concern_level |-> T_high,
        item_data |-> [resource |-> [deviceName |-> << [name |-> T_Pacer] >>,
                                     modelNumber |-> T_ModelNo]]],
       [has_concern |-> TRUE, description |-> Rep("d", 60)],
       [has_concern |-> FALSE, description |-> T_Summary],
       [has_concern |-> TRUE] >>

\* the JSON objects a 2xx answer can carry for the identifier mrn: the documented
\* structure, the same with keys left out, and the endpoint's own error report
OkBodies(mrn) ==
    { [patient_info |-> [mrn |-> << E_HOSPITAL, " " >> \o mrn,
                         name |-> << E_PERSON, " " >> \o T_Ann,
                         dob |-> << E_CALENDAR, " " >> \o T_Dob,
                         gender |-> << E_GENDER, " " >> \o T_Female],
       mri_safety_assessment |-> [status |-> T_Conditional, risk |-> T_Mod,
                                  summary |-> T_Summary,
                                  concerns |-> << T_Concern1, T_Concern2 >>,
                                  recommendations |-> << T_Rec1 >>],
       analysis_details |-> [individual_findings |-> Findings],
       timestamp |-> T_Stamp],
      [patient_info |-> [mrn |-> mrn], mri_safety_assessment |-> [status |-> T_Conditional]],
      EmptyDict,
      [error |-> T_NotFound, patient_info |-> [mrn |-> mrn]],
      [error |-> T_NotFound] }

\* what requests.post / raise_for_status / response.json can do for one identifier
Answers(mrn) ==
    { [kind |-> "ok", body |-> b, msg |-> << >>] : b \in OkBodies(mrn) }
    \cup { [kind |-> "http_error", body |-> EmptyDict, msg |-> T_Http500],
           [kind |-> "transport", body |-> EmptyDict, msg |-> T_Timeout],
           [kind |-> "bad_json", body |-> EmptyDict, msg |-> T_BadJson] }

\* the answers on which an exception is raised inside fetch_patient_data's try
Failed(answer) == answer.kind # "ok"

-----------------------------------------------------------------------------
(* Variant 2: fetch_patient_data and parse_data_to_row *)

\* fetch_patient_data's try body: the exception variant of the same call
fetch_unguarded(mrn, answer) ==
    IF Failed(answer) THEN Raise(answer.msg) ELSE Return(answer.body)

\* def fetch_patient_data(mrn): every exception becomes a dict with "error"
fetch_patient_data(mrn, answer) ==
    IF Failed(answer)
    THEN Return([error |-> answer.msg, patient_info |-> [mrn |-> mrn]])
    ELSE Return(answer.body)

\* the line parse_data_to_row builds for one finding of concern
DeviceLine(item) ==
    LET resource == Get(Get(item, "item_data", EmptyDict), "resource", EmptyDict)
        device_names == Get(resource, "deviceName", << >>)
        name == IF device_names # << >>
                THEN device_names[1]["name"]
                ELSE Take(Get(item, "description", S_UnknownDevice), 50) \o S_Dots
        model == Get(resource, "modelNumber", S_NA)
    IN  << BULLET, " " >> \o name \o S_Model \o model \o S_Dash
        \o Upper(Get(item, "concern_level", << >>)) \o S_Risk

\* devices_found: one line per finding whose has_concern is true
RECURSIVE DevicesFound(_)
DevicesFound(findings_list) ==
    IF findings_list = << >> THEN << >>
    ELSE (IF Get(Head(findings_list), "has_concern", FALSE)
          THEN << DeviceLine(Head(findings_list)) >> ELSE << >>)
         \o DevicesFound(Tail(findings_list))

\* parse_data_to_row, the branch taken when "error" in data
ErrorRow(data) ==
    << << "MRN", Get(Get(data, "patient_info", EmptyDict), "mrn", S_Unknown) >>,
       << "Status", S_APIError >>,
       << "Summary", data["error"] >> >>

\* parse_data_to_row, the flat row of a successful answer
SuccessRow(data) ==
    LET assessment == Get(data, "mri_safety_assessment", EmptyDict)
        patient == Get(data, "patient_info", EmptyDict)
        details == Get(data, "analysis_details", EmptyDict)
        devices_found == DevicesFound(Get(details, "individual_findings", << >>))
    IN  << << "MRN", Replace(Get(patient, "mrn", << >>), << E_HOSPITAL, " " >>, << >>) >>,
           << "Name", Replace(Get(patient, "name", << >>), << E_PERSON, " " >>, << >>) >>,
           << "DOB", Replace(Get(patient, "dob", << >>), << E_CALENDAR, " " >>, << >>) >>,
           << "Gender", Replace(Get(patient, "gender", << >>), << E_GENDER, " " >>, << >>) >>,
           << "Safety Status", Get(assessment, "status", << >>) >>,
           << "Risk Level", Get(assessment, "risk", << >>) >>,
           << "Devices/Implants Found", Join(<< "\n" >>, devices_found) >>,
           << "Clinical Summary", Get(assessment, "summary", << >>) >>,
           << "Key Concerns", Join(<< "\n" >>, Get(assessment, "concerns", << >>)) >>,
           << "Technologist Recommendations",
              Join(<< "\n" >>, Get(assessment, "recommendations", << >>)) >>,
           << "Timestamp", Get(data, "timestamp", << >>) >> >>

\* parse_data_to_row with the error text dropped from the error row
parse_no_summary(data) ==
    IF "error" \in DOMAIN data
    THEN << << "MRN", S_Unknown >>, << "Status", S_APIError >>, << "Summary", << >> >> >>
    ELSE SuccessRow(data)

\* def parse_data_to_row(data)
parse_data_to_row(data) ==
    IF "error" \in DOMAIN data THEN ErrorRow(data) ELSE SuccessRow(data)

-----------------------------------------------------------------------------
(* The report: pandas.DataFrame(results) and the Excel sheet *)

\* the columns of DataFrame(rows): every key, in the order of its first appearance
RECURSIVE AddKeys(_, _)
AddKeys(cols, keys) ==
    IF keys = << >> THEN cols
    ELSE AddKeys(IF \E k \in 1..Len(cols) : cols[k] = Head(keys)
                 THEN cols ELSE Append(cols, Head(keys)),
                 Tail(keys))

RECURSIVE Columns(_)
Columns(rows) ==
    IF rows = << >> THEN << >>
    ELSE AddKeys(Keys(Head(rows)), Columns(Tail(rows)))

\* the long-text columns mri_tool.py wraps
WrappedColumns == {"Devices/Implants Found", "Clinical Summary", "Key Concerns",
                   "Technologist Recommendations"}

\* df = pd.DataFrame(results); df.to_excel(...): one line per row, one cell per
\* column, NaN where the row has no such key; variant 2 also sets the widths
DataFrame(rows, wrap) ==
    LET cols == Columns(rows)
    IN  [columns |-> cols,
         rows |-> [r \in 1..Len(rows) |-> [c \in 1..Len(cols) |-> Cell(rows[r], cols[c])]],
         widths |-> IF wrap
                    THEN [c \in 1..Len(cols) |-> IF cols[c] \in WrappedColumns THEN 50 ELSE 20]
                    ELSE << >>]

-----------------------------------------------------------------------------
(* Variant 1, src/app.py: authentication *)

T_TokA == <<"t", "o", "k", "A">>
T_TokB == <<"t", "o", "k", "B">>

\* what the token endpoint can do with the signed assertion: a 200 with an
\* access_token, a 200 without one, another status, or no answer at all
TokenAnswers ==
    { [kind |-> "ok", body |-> [access_token |-> T_TokA]],
      [kind |-> "ok", body |-> [access_token |-> T_TokB]],
      [kind |-> "ok", body |-> EmptyDict],
      [kind |-> "non200", body |-> EmptyDict],
      [kind |-> "transport", body |-> EmptyDict] }

\* an outcome of get_epic_token: also whether it posted to the token endpoint
Outcome(raised, value, posted) == [raised |-> raised, value |-> value, posted |-> posted]

\* get_epic_token with the key file check left out
get_epic_token_nocheck(key, answer) ==
    IF answer.kind = "transport" THEN Outcome(TRUE, None, TRUE)
    ELSE IF answer.kind # "ok" THEN Outcome(FALSE, None, TRUE)
    ELSE Outcome(FALSE, Get(answer.body, "access_token", None), TRUE)

\* def get_epic_token(): None without the key file (nothing is sent) or on a
\* status other than 200; requests.post is not guarded, so a transport error
\* leaves the function as an exception
get_epic_token(key, answer) ==
    IF ~key THEN Outcome(FALSE, None, FALSE)
    ELSE IF answer.kind = "transport" THEN Outcome(TRUE, None, TRUE)
    ELSE IF answer.kind # "ok" THEN Outcome(FALSE, None, TRUE)
    ELSE Outcome(FALSE, Get(answer.body, "access_token", None), TRUE)

\* a token written into the headers instead of the one passed in
BearerFixed(tok) == T_TokA

\* headers = {"Authorization": f"Bearer {token}", ...}: the token a request carries
Bearer(tok) == tok

-----------------------------------------------------------------------------
(* Variant 1: the clinical API and get_patient_data *)

Categories == << "Patient", "Device", "Condition", "Procedure", "DiagnosticReport" >>

\* the slice bound of clean
CleanMax == 300

\* safe_get_json without its try/except and status test
safe_get_json_unguarded(answer) ==
    IF answer.kind = "ok" THEN Return(answer.body) ELSE Raise(<< >>)

\* def safe_get_json(url, headers): {} on an exception or a status other than 200
safe_get_json(answer) ==
    IF answer.kind = "ok" THEN Return(answer.body) ELSE Return(EmptyDict)

\* str(t)
Str(x) == IF x = None THEN S_None ELSE x

\* clean without the slice
clean_unbounded(x) == Strip(Replace1(Str(x), "\n", " "))

\* def clean(t): return str(t).replace('\n', ' ').strip()[:300]
clean(x) == Take(Strip(Replace1(Str(x), "\n", " ")), CleanMax)

\* x or fallback
Or(x, fallback) == IF Truthy(x) THEN x ELSE fallback

\* the Devices loop
RECURSIVE ListDevs(_)
ListDevs(entry) ==
    IF entry = << >> THEN << >>
    ELSE LET resource == Head(entry)["resource"]
             d_name == Or(Get(Get(resource, "deviceName", << EmptyDict >>)[1], "name", None),
                          S_UnknownDevice)
         IN  << clean(d_name) >> \o ListDevs(Tail(entry))

\* the Conditions loop: clinicalStatus active only
RECURSIVE ListConds(_)
ListConds(entry) ==
    IF entry = << >> THEN << >>
    ELSE LET resource == Head(entry)["resource"]
             code == Get(Get(Get(resource, "clinicalStatus", EmptyDict),
                             "coding", << EmptyDict >>)[1], "code", None)
             c_name == Or(Get(Get(resource, "code", EmptyDict), "text", None),
                          S_UnknownCondition)
         IN  (IF code = S_active THEN << clean(c_name) >> ELSE << >>)
             \o ListConds(Tail(entry))

\* the Surgeries loop: f"{clean(p_name)} ({p_date})"
RECURSIVE ListProcs(_)
ListProcs(entry) ==
    IF entry = << >> THEN << >>
    ELSE LET resource == Head(entry)["resource"]
             p_name == Or(Get(Get(resource, "code", EmptyDict), "text", None),
                          S_UnknownProcedure)
             p_date == Or(Get(Get(resource, "performedPeriod", EmptyDict), "start", None),
                          << >>)
         IN  << clean(p_name) \o << " ", "(" >> \o p_date \o << ")" >> >>
             \o ListProcs(Tail(entry))

\* the Imaging loop: reports whose category text mentions radiology or imaging
RECURSIVE ListImgs(_)
ListImgs(entry) ==
    IF entry = << >> THEN << >>
    ELSE LET resource == Head(entry)["resource"]
             cat == Lower(Str(Get(Get(resource, "category", << EmptyDict >>)[1],
                                  "text", None)))
             study == Or(Get(Get(resource, "code", EmptyDict), "text", None), S_Study)
         IN  (IF Contains(cat, S_radiology) \/ Contains(cat, S_imaging)
              THEN << clean(study) >> ELSE << >>)
             \o ListImgs(Tail(entry))

\* the loop get_patient_data runs over the entries of a category's answer
Listed(cat, entry) ==
    CASE cat = "Device" -> ListDevs(entry)
      [] cat = "Condition" -> ListConds(entry)
      [] cat = "Procedure" -> ListProcs(entry)
      [] cat = "DiagnosticReport" -> ListImgs(entry)

\* if not pt_resp.get('total'): no total, or a total of 0
NotFound(pt_resp) == Get(pt_resp, "total", 0) = 0

\* the not-found branch with a placeholder row appended, as variant 2 does
RowForNotFound(rows, mrn) ==
    Append(rows, << << "MRN", mrn >>, << "Safety Status", S_Unknown >> >>)

\* "if not pid: st.error(...); continue": the results are left as they are
SkipNotFound(rows, mrn) == rows

\* get_patient_data's locals before the Patient request
NoPatient ==
    [idx |-> 0, pid |-> None, name |-> None, devs |-> << >>, conds |-> << >>,
     procs |-> << >>, imgs |-> << >>, failed |-> {}, hit |-> FALSE]

-----------------------------------------------------------------------------
(* Variant 1: the AI call and the extraction of the two fields *)

\* analyze_with_ai without its try/except
analyze_unguarded(answer) ==
    IF answer.kind = "raise" THEN Raise(answer.text) ELSE Return(answer.text)

\* def analyze_with_ai(...): resp.text, or "AI Error: " + str(e)
analyze_with_ai(answer) ==
    IF answer.kind = "raise" THEN Return(S_AIError \o answer.text)
    ELSE Return(answer.text)

\* the part of s before its first newline: what (.*) matches
UpToNewline(s) ==
    LET k == Find(s, << "\n" >>) IN IF k = 0 THEN s ELSE SubSeq(s, 1, k - 1)

\* m = re.search(marker + r"\s*(.*)", ai_report); m.group(1).strip() if m,
\* else the initial "Unknown"
Extract(marker, ai_report) ==
    LET k == Find(ai_report, marker)
    IN  IF k = 0 THEN S_Unknown
        ELSE Strip(UpToNewline(LStrip(Drop(ai_report, k + Len(marker) - 1))))

\* the dict appended to results
Row1(mrn, name, ai_report, devs, conds) ==
    << << "MRN", mrn >>,
       << "Name", name >>,
       << "Safety Status", Extract(STATUS_MARKER, ai_report) >>,
       << "Risk Level", Extract(RISK_MARKER, ai_report) >>,
       << "Full Analysis", ai_report >>,
       << "Devices", Join(S_Bar, devs) >>,
       << "Conditions", Join(S_Bar, conds) >> >>

-----------------------------------------------------------------------------
(* Variant 1: what the clinical API and the AI service can answer *)

T_Diabetes == <<"d", "i", "a", "b", "e", "t", "e", "s">>
T_Flu == <<"f", "l", "u">>
T_resolved == <<"r", "e", "s", "o", "l", "v", "e", "d">>
T_Stent == <<"s", "t", "e", "n", "t">>
T_Date == <<"2", "0", "2", "0", "-", "0", "1", "-", "0", "2">>
T_Radiology == <<"R", "a", "d", "i", "o", "l", "o", "g", "y">>
T_ImagingStudy == <<"D", "i", "a", "g", "n", "o", "s", "t", "i", "c", " ", "I", "m", "a", "g", "i", "n", "g">>
T_Lab == <<"L", "a", "b">>
T_CT == <<"C", "T">>
T_CBC == <<"C", "B", "C">>
T_Safe == <<"S", "a", "f", "e">>
T_Low == <<"L", "o", "w">>
T_Unsafe == <<"U", "n", "s", "a", "f", "e">>
T_Analysis == <<"*", "*", "A", "n", "a", "l", "y", "s", "i", "s", ":", "*", "*", " ", "o", "k">>
T_Quota == <<"4", "2", "9", " ", "q", "u", "o", "t", "a">>
T_Blocked == <<"b", "l", "o", "c", "k", "e", "d">>
T_Sorry == <<"c", "a", "n", "n", "o", "t", " ", "a", "s", "s", "e", "s", "s">>

Dev(name) == [resource |-> [deviceName |-> << [name |-> name] >>]]
DevBare == [resource |-> EmptyDict]
DevNoName == [resource |-> [deviceName |-> << EmptyDict >>]]
Cond(status, text) ==
    [resource |-> [clinicalStatus |-> [coding |-> << [code |-> status] >>],
                   code |-> [text |-> text]]]
CondNoText == [resource |-> [clinicalStatus |-> [coding |-> << [code |-> S_active] >>]]]
CondBare == [resource |-> EmptyDict]
Proc(text, start) ==
    [resource |-> [code |-> [text |-> text], performedPeriod |-> [start |-> start]]]
ProcNoDate(text) == [resource |-> [code |-> [text |-> text]]]
ProcBare == [resource |-> EmptyDict]
Rpt(cat, text) == [resource |-> [category |-> << [text |-> cat] >>, code |-> [text |-> text]]]
RptNoCode(cat) == [resource |-> [category |-> << [text |-> cat] >>]]
RptBare == [resource |-> EmptyDict]

\* replies of the model: both markers, the status marker only, the value on the
\* line after the marker, no marker at all
ReplyFull ==
    STATUS_MARKER \o << " " >> \o T_Safe \o << "\n" >> \o RISK_MARKER \o << " " >> \o T_Low
    \o << " ", "\n" >> \o T_Analysis
ReplyNoRisk == << " " >> \o STATUS_MARKER \o T_Unsafe \o << "\n" >> \o T_Analysis
ReplyNextLine ==
    RISK_MARKER \o << "\n", " " >> \o T_Low \o << "\n" >> \o STATUS_MARKER
ReplyPlain == T_Sorry

AiReply(text) == [kind |-> "reply", text |-> text]
\* an exception of generate_content or of resp.text, with its str(e)
AiRaise(text) == [kind |-> "raise", text |-> text]

\* the records one run of the batch meets: per category the entry lists of the
\* bundles, and the outcomes of the AI call
SamplePool ==
    [Device |-> { << Dev(T_Pacer), DevBare >> },
     Condition |-> { << Cond(S_active, T_Diabetes), Cond(T_resolved, T_Flu), CondNoText >> },
     Procedure |-> { << Proc(T_Stent, T_Date), ProcBare >> },
     DiagnosticReport |-> { << Rpt(T_Radiology, T_CT), Rpt(T_Lab, T_CBC), RptBare >> },
     AI |-> { AiReply(ReplyFull), AiReply(ReplyNoRisk), AiRaise(T_Quota) }]

\* texts at the edges of clean: blanks and newlines around and inside, exactly
\* 300 characters, more than 300, a newline at the cut, the empty text
EdgeTexts ==
    { << " ", "a", "\n", "b", " ", "\n" >>,
      Rep("a", CleanMax),
      Rep("a", CleanMax + 1),
      << " " >> \o Rep("a", CleanMax - 1) \o << "\n", "b" >>,
      << >> }

EdgePool ==
    [Device |-> { << >>, << DevNoName >> } \cup { << Dev(x) >> : x \in EdgeTexts },
     Condition |-> { << >>, << CondBare, Cond(T_resolved, T_Flu) >>, << CondNoText >> }
                   \cup { << Cond(S_active, x) >> : x \in EdgeTexts },
     Procedure |-> { << >>, << ProcBare >>, << ProcNoDate(T_Stent) >> }
                   \cup { << Proc(x, T_Date) >> : x \in EdgeTexts },
     DiagnosticReport |-> { << >>, << RptBare >>, << Rpt(T_Lab, T_CBC) >>,
                            << RptNoCode(T_Radiology) >> }
                          \cup { << Rpt(T_ImagingStudy, x) >> : x \in EdgeTexts },
     AI |-> { AiReply(ReplyFull), AiReply(ReplyNoRisk), AiReply(ReplyNextLine),
              AiReply(ReplyPlain), AiRaise(T_Quota),
              AiRaise(T_Blocked \o << "\n" >> \o T_Sorry) }]

\* the Patient search for an identifier: a bundle with the patient, an empty
\* bundle, a bundle without a total, another status, no answer
PatientAnswers(mrn) ==
    { [kind |-> "ok",
       body |-> [total |-> 1,
                 entry |-> << [resource |-> [id |-> << "P" >> \o mrn,
                                             name |-> << [text |-> << "N" >> \o mrn] >>]] >>]],
      [kind |-> "ok", body |-> [total |-> 0]],
      [kind |-> "ok", body |-> EmptyDict],
      [kind |-> "non200", body |-> EmptyDict],
      [kind |-> "transport", body |-> EmptyDict] }

\* the search of one category for a patient: a bundle of the pool (an empty
\* entry list is a bundle with no entry key), another status, no answer
CategoryAnswers(cat) ==
    { [kind |-> "ok", body |-> IF es = << >> THEN EmptyDict ELSE [entry |-> es]] :
        es \in pool[cat] }
    \cup { [kind |-> "non200", body |-> EmptyDict],
           [kind |-> "transport", body |-> EmptyDict] }

-----------------------------------------------------------------------------
(* The run *)

\* the token endpoint not called
NotAsked == [kind |-> "none", access_token |-> None]

\* the inputs of the single-patient runs
SingleInputs == { << "1" >>, << " ", "1", "1", ",", " " >> }

InitWith(inputs, records) ==
    /\ variant \in {1, 2}
    /\ pc = "idle"
    /\ mrn_input \in inputs
    /\ mrn_list = << >>
    /\ i = 1
    /\ results = << >>
    /\ report = NoReport
    /\ requests = << >>
    /\ env = << >>
    /\ key_exists \in (IF variant = 1 THEN BOOLEAN ELSE {TRUE})
    /\ token = None
    /\ issued = NotAsked
    /\ ai_calls = 0
    /\ cur = NoPatient
    /\ errors = << >>
    /\ pool = records

\* a batch of either script over the sample records
Init == InitWith(Inputs, SamplePool)

\* app.py on one identifier, over the records at the edges of the extraction
InitFetch == InitWith(SingleInputs, EdgePool) /\ variant = 1 /\ key_exists

(* ---- variant 2: mri_tool.py ---- *)

\* if st.button("Analyze Patients"): the warning, or the list and the empty results
ClickV2 ==
    /\ variant = 2
    /\ pc = "idle"
    /\ IF ~Truthy(mrn_input)
       THEN /\ pc' = "done"
            /\ UNCHANGED << mrn_list, i, results >>
       ELSE /\ mrn_list' = MrnList(mrn_input)
            /\ results' = << >>
            /\ i' = 1
            /\ pc' = "loop"
    /\ UNCHANGED << variant, mrn_input, report, requests, env, key_exists, token,
                    issued, ai_calls, cur, errors, pool >>

\* one pass of "for i, mrn in enumerate(mrn_list)": fetch, flatten, append
LoopV2 ==
    /\ variant = 2
    /\ pc = "loop"
    /\ i <= Len(mrn_list)
    /\ \E answer \in Answers(mrn_list[i]) :
         LET mrn == mrn_list[i]
             data == fetch_patient_data(mrn, answer)
         IN  /\ requests' = Append(requests, Request(i, "Triage", None, Strip(mrn)))
             /\ IF data.raised
                THEN /\ pc' = "crashed"
                     /\ UNCHANGED << results, env, i >>
                ELSE /\ results' = AppendRow(results, parse_data_to_row(data.value))
                     /\ env' = Append(env, [idx |-> i, answer |-> answer, data |-> data.value])
                     /\ i' = i + 1
                     /\ pc' = "loop"
    /\ UNCHANGED << variant, mrn_input, mrn_list, report, key_exists, token, issued,
                    ai_calls, cur, errors, pool >>

\* after the loop: DataFrame, preview, the Excel sheet with its column widths
FinishV2 ==
    /\ variant = 2
    /\ pc = "loop"
    /\ i > Len(mrn_list)
    /\ report' = DataFrame(results, TRUE)
    /\ pc' = "done"
    /\ UNCHANGED << variant, mrn_input, mrn_list, i, results, requests, env, key_exists,
                    token, issued, ai_calls, cur, errors, pool >>

(* ---- variant 1: app.py ---- *)

\* if st.button("Analyze Patients") and ai_ready (configure_ai has succeeded, or
\* the click does nothing): the warning, or get_epic_token and, with a token, the
\* list and the empty results
ClickV1 ==
    /\ variant = 1
    /\ pc = "idle"
    /\ IF ~Truthy(mrn_input)
       THEN /\ pc' = "done"
            /\ UNCHANGED << mrn_list, i, results, requests, token, issued >>
       ELSE \E answer \in TokenAnswers :
              LET got == get_epic_token(key_exists, answer)
              IN  /\ requests' = IF got.posted
                                 THEN Append(requests, Request(0, "Token", None, << >>))
                                 ELSE requests
                  /\ issued' = IF got.posted
                               THEN [kind |-> answer.kind,
                                     access_token |-> Get(answer.body, "access_token", None)]
                               ELSE NotAsked
                  /\ token' = got.value
                  /\ IF got.raised
                     THEN /\ pc' = "crashed"
                          /\ UNCHANGED << mrn_list, i, results >>
                     ELSE IF Truthy(got.value)
                     THEN /\ mrn_list' = MrnList(mrn_input)
                          /\ results' = << >>
                          /\ i' = 1
                          /\ pc' = "patient"
                     ELSE /\ pc' = "done"
                          /\ UNCHANGED << mrn_list, i, results >>
    /\ UNCHANGED << variant, mrn_input, report, env, key_exists, ai_calls, cur,
                    errors, pool >>

\* get_patient_data up to "if not pt_resp.get('total')", and for a patient not
\* found the caller's st.error and continue
PatientLookup ==
    /\ variant = 1
    /\ pc = "patient"
    /\ i <= Len(mrn_list)
    /\ \E answer \in PatientAnswers(mrn_list[i]) :
         LET pt_resp == safe_get_json(answer)
             lost == IF answer.kind = "ok" THEN {} ELSE {"Patient"}
             hit == answer.kind = "ok" /\ Get(answer.body, "total", 0) > 0
         IN  /\ requests' = Append(requests,
                                   Request(i, "Patient", Bearer(token), mrn_list[i]))
             /\ IF pt_resp.raised
                THEN /\ pc' = "crashed"
                     /\ UNCHANGED << cur, errors, env, i, results >>
                ELSE IF NotFound(pt_resp.value)
                THEN /\ cur' = [NoPatient EXCEPT !.idx = i, !.failed = lost, !.hit = hit]
                     /\ errors' = Append(errors, i)
                     /\ results' = SkipNotFound(results, mrn_list[i])
                     /\ env' = Append(env, [idx |-> i, found |-> hit, raised |-> FALSE,
                                            msg |-> << >>])
                     /\ i' = i + 1
                     /\ pc' = "patient"
                ELSE /\ cur' = [NoPatient EXCEPT
                                  !.idx = i,
                                  !.hit = hit,
                                  !.pid = pt_resp.value["entry"][1]["resource"]["id"],
                                  !.name = pt_resp.value["entry"][1]["resource"]["name"][1]["text"]]
                     /\ pc' = "devices"
                     /\ UNCHANGED << errors, env, i, results >>
    /\ UNCHANGED << variant, mrn_input, mrn_list, report, key_exists, token,
                    issued, ai_calls, pool >>

\* one of the four searches by patient id: the request, and the answer's entries
Search(cat, field, next) ==
    /\ variant = 1
    /\ \E answer \in CategoryAnswers(cat) :
         LET got == safe_get_json(answer)
         IN  /\ requests' = Append(requests, Request(i, cat, Bearer(token), cur.pid))
             /\ IF got.raised
                THEN /\ pc' = "crashed"
                     /\ UNCHANGED cur
                ELSE /\ cur' = [cur EXCEPT
                                  ![field] = Listed(cat, Get(got.value, "entry", << >>)),
                                  !.failed = IF answer.kind = "ok" THEN @ ELSE @ \cup {cat}]
                     /\ pc' = next
    /\ UNCHANGED << variant, mrn_input, mrn_list, i, results, report, env, key_exists,
                    token, issued, ai_calls, errors, pool >>

\* devs = safe_get_json(.../Device?patient={pid}) and its loop
FetchDevices == pc = "devices" /\ Search("Device", "devs", "conditions")

\* conds = safe_get_json(.../Condition?patient={pid}) and its loop
FetchConditions == pc = "conditions" /\ Search("Condition", "conds", "procedures")

\* procs = safe_get_json(.../Procedure?patient={pid}&status=completed) and its loop
FetchProcedures == pc = "procedures" /\ Search("Procedure", "procs", "reports")

\* rpts = safe_get_json(.../DiagnosticReport?patient={pid}) and its loop; then
\* get_patient_data returns
FetchReports == pc = "reports" /\ Search("DiagnosticReport", "imgs", "analyze")

\* B and C of the loop body: analyze_with_ai, the two fields, results.append
Analyze ==
    /\ variant = 1
    /\ pc = "analyze"
    /\ \E answer \in pool["AI"] :
         LET ai_report == analyze_with_ai(answer)
         IN  /\ ai_calls' = ai_calls + 1
             /\ IF ai_report.raised
                THEN /\ pc' = "crashed"
                     /\ UNCHANGED << results, env, i >>
                ELSE /\ results' = AppendRow(results,
                                     Row1(mrn_list[i], cur.name, ai_report.value,
                                          cur.devs, cur.conds))
                     /\ env' = Append(env, [idx |-> i, found |-> cur.hit,
                                            raised |-> answer.kind = "raise",
                                            msg |-> IF answer.kind = "raise"
                                                    THEN answer.text ELSE << >>])
                     /\ i' = i + 1
                     /\ pc' = "patient"
    /\ UNCHANGED << variant, mrn_input, mrn_list, report, requests, key_exists, token,
                    issued, cur, errors, pool >>

\* after the loop: "if results:" the DataFrame and the Excel sheet
FinishV1 ==
    /\ variant = 1
    /\ pc = "patient"
    /\ i > Len(mrn_list)
    /\ report' = IF results # << >> THEN DataFrame(results, FALSE) ELSE NoReport
    /\ pc' = "done"
    /\ UNCHANGED << variant, mrn_input, mrn_list, i, results, requests, env, key_exists,
                    token, issued, ai_calls, cur, errors, pool >>

NextV1 ==
    \/ ClickV1
    \/ PatientLookup
    \/ FetchDevices
    \/ FetchConditions
    \/ FetchProcedures
    \/ FetchReports
    \/ Analyze
    \/ FinishV1

NextV2 ==
    \/ ClickV2
    \/ LoopV2
    \/ FinishV2

Next == NextV1 \/ NextV2

\* a batch run of either script
Spec == Init /\ [][Next]_vars

\* app.py on a single identifier, with the records at the edges
SpecFetch == InitFetch /\ [][NextV1]_vars

-----------------------------------------------------------------------------
(* What the claims speak of, read off the input and the answers *)

\* the positions of mrn_input at which a comma-separated part starts
PartStarts(input) == { k \in 1..(Len(input) + 1) : k = 1 \/ input[k - 1] = "," }

\* the part starting at k holds a character that is neither blank nor a comma
HoldsIdentifier(input, k) ==
    \E j \in k..Len(input) :
        /\ ~IsSpace(input[j])
        /\ \A m \in k..j : input[m] # ","

\* the number of non-empty identifiers submitted
Submitted(input) == Cardinality({ k \in PartStarts(input) : HoldsIdentifier(input, k) })

\* the number of the first k processed identifiers the Patient search found
FoundUpTo(k) == Cardinality({ j \in 1..k : env[j].found })

\* the categories requested for the identifier at position idx, in order
RECURSIVE CategoriesOf(_, _)
CategoriesOf(log, idx) ==
    IF log = << >> THEN << >>
    ELSE (IF Head(log).idx = idx THEN << Head(log).cat >> ELSE << >>)
         \o CategoriesOf(Tail(log), idx)

\* the run of the loop over the latest identifier is over
PatientOver == pc \in {"patient", "done"} /\ cur.idx # 0

-----------------------------------------------------------------------------
(* C1 *)

\* C1: variant 2 never aborts, holds one row per identifier processed so far,
\* and when the batch loop has finished the number of report rows equals the
\* number of non-empty identifiers submitted, whatever the endpoint answered;
\* a failed identifier has an "API Error" row at its position.
C1_RowPerIdentifier ==
    variant = 2 =>
        /\ pc # "crashed"
        /\ pc = "loop" => Len(results) = i - 1
        /\ \A k \in 1..Len(env) :
              Failed(env[k].answer) => Cell(results[k], "Status") = S_APIError
        /\ pc = "done" =>
              /\ Len(results) = Submitted(mrn_input)
              /\ Truthy(mrn_input) => Len(report.rows) = Submitted(mrn_input)

\* C1 witness: a finished run of two identifiers, the first a transport failure,
\* the second a non-2xx status
C1_Witness ==
    /\ variant = 2
    /\ pc = "done"
    /\ Len(results) = 2
    /\ env[1].answer.kind = "transport"
    /\ env[2].answer.kind = "http_error"

(* C2 *)

\* C2: variant 1, with a token obtained: the run is not aborted, every row
\* belongs to an identifier the Patient search found, in order, and after the
\* run the number of rows is the number of identifiers found; each identifier
\* not found is reported and has no row, and the identifiers after it are
\* still processed.
C2_RowPerFoundPatient ==
    (variant = 1 /\ Truthy(token)) =>
        /\ pc # "crashed"
        /\ Len(results) = FoundUpTo(Len(env))
        /\ \A k \in 1..Len(env) :
              /\ env[k].idx = k
              /\ env[k].found =>
                    Cell(results[FoundUpTo(k)], "MRN") = mrn_list[k]
              /\ ~env[k].found => \E e \in 1..Len(errors) : errors[e] = k
        /\ pc = "done" =>
              /\ Len(env) = Submitted(mrn_input)
              /\ Len(results) = Cardinality({ k \in 1..Len(env) : env[k].found })
              /\ Len(report.rows) = Len(results)

\* C2 witness: a finished run in which the first identifier was not found and
\* the second one, processed after it, has the only row
C2_Witness ==
    /\ variant = 1
    /\ pc = "done"
    /\ Len(env) = 2
    /\ ~env[1].found
    /\ env[2].found
    /\ Len(results) = 1

(* C3 *)

\* authentication failed: the key file is absent, or the token endpoint
\* answered with a status other than 200
AuthFailed ==
    /\ variant = 1
    /\ pc # "idle"
    /\ Truthy(mrn_input)
    /\ ~key_exists \/ issued.kind = "non200"

\* C3: when authentication fails the run is over with nothing done: no request
\* but the one to the token endpoint (not repeated), no AI call, no row, no
\* report; without the key file no request at all.
C3_AuthFailureAborts ==
    AuthFailed =>
        /\ pc = "done"
        /\ ~Truthy(token)
        /\ Len(requests) <= 1
        /\ \A k \in 1..Len(requests) : requests[k].cat = "Token"
        /\ ~key_exists => requests = << >>
        /\ ai_calls = 0
        /\ results = << >>
        /\ env = << >>
        /\ report = NoReport

\* C3 witness: the token endpoint refused a run that holds identifiers
C3_Witness ==
    /\ AuthFailed
    /\ key_exists
    /\ Submitted(mrn_input) = 2

(* C4 *)

\* C4: variant 2: for every identifier whose fetch failed (non-2xx status,
\* transport failure, unreadable body) the fetched data is a dict with an
\* "error" key and its row has Status "API Error", the exception's text as
\* Summary and the identifier as MRN.
C4_ErrorRow ==
    variant = 2 =>
        \A k \in 1..Len(env) :
            Failed(env[k].answer) =>
                /\ "error" \in DOMAIN env[k].data
                /\ Cell(results[k], "Status") = S_APIError
                /\ Cell(results[k], "Summary") = env[k].answer.msg
                /\ Cell(results[k], "MRN") = mrn_list[k]
                /\ mrn_list[k] = Strip(mrn_list[k])

\* C4 witness: a timeout on the second identifier, typed with a blank before it
C4_Witness ==
    /\ variant = 2
    /\ mrn_input = << "1", ",", " ", "1" >>
    /\ Len(env) = 2
    /\ env[2].answer.kind = "transport"
    /\ Cell(results[2], "Summary") = T_Timeout

(* C5 *)

\* the result the latest identifier has for a category
Found(cat) ==
    CASE cat = "Device" -> cur.devs
      [] cat = "Condition" -> cur.conds
      [] cat = "Procedure" -> cur.procs
      [] cat = "DiagnosticReport" -> cur.imgs
      [] OTHER -> << >>

\* the categories searched by patient id
ByPatient == {"Device", "Condition", "Procedure", "DiagnosticReport"}

\* C5 as stated: whichever of the five requests failed for an identifier, its
\* category is empty, the other categories are still requested and the
\* identifier's processing goes on to its row.
C5_EveryCategoryTolerant ==
    (variant = 1 /\ PatientOver /\ cur.failed # {}) =>
        /\ \A cat \in cur.failed : Found(cat) = << >>
        /\ CategoriesOf(requests, cur.idx) = Categories
        /\ Len(results) = FoundUpTo(Len(env))
        /\ env[cur.idx].found

\* C5 amended: a failed Device, Condition, Procedure or DiagnosticReport request
\* leaves its category empty, the categories after it are still requested and
\* the row is produced; a failed Patient request is taken as "not found": the
\* identifier gets no further request and no row, and the run goes on.  No
\* failed request to the clinical API aborts the run.
C5_PerPatientCategoriesTolerant ==
    variant = 1 =>
        /\ pc = "crashed" => \A k \in 1..Len(requests) : requests[k].cat = "Token"
        /\ \A cat \in cur.failed \cap ByPatient : Found(cat) = << >>
        /\ (PatientOver /\ "Patient" \notin cur.failed /\ cur.pid # None) =>
              /\ CategoriesOf(requests, cur.idx) = Categories
              /\ Len(env) = cur.idx
              /\ Len(results) = FoundUpTo(Len(env))
              /\ Cell(results[Len(results)], "MRN") = mrn_list[cur.idx]
        /\ "Patient" \in cur.failed =>
              /\ cur.pid = None
              /\ CategoriesOf(requests, cur.idx) = << "Patient" >>
              /\ PatientOver
              /\ ~env[cur.idx].found
              /\ Len(results) = FoundUpTo(Len(env))

\* C5 witness: the Device and Procedure requests failed, the Condition request
\* between them brought its entries, and the row is there
C5_Witness ==
    /\ variant = 1
    /\ PatientOver
    /\ cur.failed = {"Device", "Procedure"}
    /\ cur.conds # << >>
    /\ cur.imgs # << >>
    /\ Len(results) = 1

(* C6 *)

C7_FixedColumns ==
    /\ \A j, k \in 1..Len(results) : Keys(results[j]) = Keys(results[k])
    /\ \A r \in 1..Len(report.rows) :
          \A c \in 1..Len(report.columns) : report.rows[r][c] # NaN

(* C8 *)

\* the row the code builds for the k-th processed identifier of variant 2
ExpectedRowV2(k) == parse_data_to_row(env[k].data)

\* C8: identifiers are processed one at a time in input order: the k-th
\* processed identifier is the k-th of the list, the requests are issued in the
\* order of the identifiers (and, in variant 1, the five searches of a found
\* patient in their order before anything of the next identifier), and the
\* rows are in the order of the identifiers that produced them.
C8_InputOrder ==
    /\ \A k \in 1..Len(env) : env[k].idx = k
    /\ pc \in {"loop", "patient"} => Len(env) = i - 1
    /\ \A a, b \in 1..Len(requests) :
          a < b => requests[a].idx <= requests[b].idx
    /\ variant = 2 =>
          /\ Len(results) = Len(env)
          /\ \A k \in 1..Len(env) :
                /\ results[k] = ExpectedRowV2(k)
                /\ CategoriesOf(requests, k) = << "Triage" >>
    /\ variant = 1 =>
          /\ Len(results) = FoundUpTo(Len(env))
          /\ \A k \in 1..Len(env) :
                /\ env[k].found => Cell(results[FoundUpTo(k)], "MRN") = mrn_list[k]
                /\ CategoriesOf(requests, k) =
                      IF env[k].found THEN Categories ELSE << "Patient" >>

\* C8 witness: two different identifiers, each with its row, in either variant
C8_Witness ==
    /\ pc = "done"
    /\ Len(mrn_list) = 2
    /\ mrn_list[1] # mrn_list[2]
    /\ Len(results) = 2
    /\ results[1] # results[2]

(* C9 *)

\* C9: variant 1: the token endpoint is asked at most once, and before anything
\* else; every request to the clinical API carries the access_token it sent,
\* which is also still the run's token.
C9_OneTokenPerRun ==
    variant = 1 =>
        /\ \A k \in 1..Len(requests) : requests[k].cat = "Token" <=> k = 1
        /\ \A k \in 2..Len(requests) :
              /\ Truthy(requests[k].token)
              /\ requests[k].token = issued.access_token
              /\ token = issued.access_token
        /\ pc \in {"patient", "devices", "conditions", "procedures", "reports", "analyze"}
              => token = issued.access_token /\ Truthy(token)

\* C9 witness: a finished run over two found patients with the second token
C9_Witness ==
    /\ variant = 1
    /\ pc = "done"
    /\ issued.access_token = T_TokB
    /\ Len(requests) = 11
    /\ Len(results) = 2

(* C10 *)

NoNewline(x) == \A k \in 1..Len(x) : x[k] # "\n"

Bounded(x) == Len(x) <= CleanMax /\ NoNewline(x)

AllBounded(list) == \A k \in 1..Len(list) : Bounded(list[k])

\* the dates a Procedure resource of the pool carries, and none
Dates == { << >>, T_Date }

\* a cleaned name followed by " (", the date and ")"
NameAndDate(x) ==
    \E d \in Dates :
        LET suffix == << " ", "(" >> \o d \o << ")" >>
            n == Len(x) - Len(suffix)
        IN  /\ n >= 0
            /\ Drop(x, n) = suffix
            /\ Bounded(Take(x, n))

\* C10 as stated: every entry of the four lists is at most 300 characters long
\* and holds no newline.
C10_AllEntriesBounded ==
    variant = 1 =>
        /\ AllBounded(cur.devs)
        /\ AllBounded(cur.conds)
        /\ AllBounded(cur.procs)
        /\ AllBounded(cur.imgs)

\* C10 amended: every entry of the device, condition and imaging lists is at
\* most 300 characters long and holds no newline; an entry of the procedure
\* list is such a text followed by " (", the performed date and ")", which are
\* added after the cleaning and are not counted in the 300.
C10_EntriesBounded ==
    variant = 1 =>
        /\ AllBounded(cur.devs)
        /\ AllBounded(cur.conds)
        /\ AllBounded(cur.imgs)
        /\ \A k \in 1..Len(cur.procs) : NameAndDate(cur.procs[k])

\* C10 witness: a device name cut to 300 characters, a condition whose newline
\* became a blank, and a procedure entry longer than 300 characters
C10_Witness ==
    /\ variant = 1
    /\ pc = "analyze"
    /\ cur.devs = << Rep("a", CleanMax) >>
    /\ cur.conds = << << "a", " ", "b" >> >>
    /\ Len(cur.procs) = 1 /\ Len(cur.procs[1]) > CleanMax
    /\ cur.imgs # << >>

=============================================================================
